---- MODULE Spec2Model ----
(***************************************************************************)
(* A model of the client-transaction-id generator: the cubic bezier        *)
(* solver (cubic.ts), the interpolation helpers, the frame-table parser,   *)
(* the animation key synthesis and the session set-up (transaction.ts:     *)
(* create) and the token encoder (transaction.ts: generateTransactionId).  *)
(***************************************************************************)
EXTENDS Integers, Sequences, FiniteSets, TLC

(***************************************************************************)
(* JavaScript numbers.  A number is a binary floating point value          *)
(* s * m * 2^e with a mantissa of MantBits bits (binary64 has 53), every   *)
(* operation rounding its exact result to the nearest representable value, *)
(* ties to even, as IEEE 754 does.  A result whose leading bit is below    *)
(* 2^-ExpRange underflows to zero (binary64: 2^-1074).  NaN is a value of  *)
(* its own; undefined is modelled by NaN, which is what it converts to in  *)
(* every arithmetic operation and comparison of the program.               *)
(***************************************************************************)
MantBits == 24
ExpRange == 24

Limb == 2^12

NaN == [nan |-> TRUE, s |-> 1, m |-> 0, e |-> 0]
Zero == [nan |-> FALSE, s |-> 1, m |-> 0, e |-> 0]

IsNaN(x) == x.nan

\* the number of bits of n, 0 < n < 2^31
BitLen(n) == CHOOSE k \in 1..31 : 2^(k - 1) <= n /\ (k = 31 \/ n < 2^k)

\* s * m * 2^e for a mantissa m of exactly MantBits bits, or zero when the
\* value underflows
Finite(s, m, e) ==
  IF e + MantBits - 1 < -ExpRange THEN Zero
  ELSE [nan |-> FALSE, s |-> s, m |-> m, e |-> e]

\* a rounded mantissa q of at most MantBits + 1 bits
Carry(s, q, e) ==
  Finite(s, IF q = 2^MantBits THEN 2^(MantBits - 1) ELSE q,
         IF q = 2^MantBits THEN e + 1 ELSE e)

\* q + rem / (2 half) rounded to the nearest integer, ties to even
RoundEven(s, q, rem, half, e) ==
  Carry(s, IF rem > half \/ (rem = half /\ q % 2 = 1) THEN q + 1 ELSE q, e)

\* n has len bits, k == len - MantBits of them too many
NormBits(s, n, e, k) ==
  IF k <= 0 THEN Finite(s, n * 2^(-k), e + k)
  ELSE RoundEven(s, n \div 2^k, n % 2^k, 2^(k - 1), e + k)

\* The number nearest to s * n * 2^e (n a natural number), ties to even.
Norm(s, n, e) ==
  IF n = 0 THEN Zero ELSE NormBits(s, n, e, BitLen(n) - MantBits)

\* n with its lowest bit set when bits were shifted out (the sticky bit).
Jam(n, sticky) == IF sticky /\ n % 2 = 0 THEN n + 1 ELSE n

\* the number nearest to the integer r * 2^e
NormSigned(r, e) ==
  Norm(IF r < 0 THEN -1 ELSE 1, IF r < 0 THEN -r ELSE r, e)

FromInt(n) == NormSigned(n, 0)

Fneg(x) == IF x.nan \/ x.m = 0 THEN x ELSE [x EXCEPT !.s = -x.s]

Fabs(x) == IF x.nan THEN x ELSE [x EXCEPT !.s = 1]

\* the exact product is hi * Limb^2 + lo; three bits of lo are kept below hi
\* and the rest of it is the sticky bit
MulExact(s, hi, lo, e) ==
  Norm(s, Jam(hi * 8 + (lo \div ((Limb * Limb) \div 8)),
              lo % ((Limb * Limb) \div 8) # 0), e + 21)

\* the product as hh * Limb^2 + mid * Limb + ll, ll < Limb
MulLimbs(s, hh, mid, ll, e) ==
  MulExact(s, hh + (mid \div Limb), (mid % Limb) * Limb + ll, e)

\* the product of the mantissas (xh * Limb + xl) and (yh * Limb + yl)
MulParts(s, xh, xl, yh, yl, e) ==
  MulLimbs(s, xh * yh, xh * yl + xl * yh + ((xl * yl) \div Limb),
           (xl * yl) % Limb, e)

\* x * y
Fmul(x, y) ==
  IF x.nan \/ y.nan THEN NaN
  ELSE IF x.m = 0 \/ y.m = 0 THEN Zero
  ELSE MulParts(x.s * y.s, x.m \div Limb, x.m % Limb, y.m \div Limb,
                y.m % Limb, x.e + y.e)

\* n / 2^d with the sticky bit, n having three guard bits
Shifted(n, d) ==
  IF d > MantBits + 3 THEN 1 ELSE Jam(n \div 2^d, n % 2^d # 0)

\* a + b where a has the larger exponent
AddAligned(a, b) ==
  NormSigned(a.s * a.m * 8 + b.s * Shifted(b.m * 8, a.e - b.e), a.e - 3)

\* x + y
Fadd(x, y) ==
  IF x.nan \/ y.nan THEN NaN
  ELSE IF x.m = 0 THEN y
  ELSE IF y.m = 0 THEN x
  ELSE AddAligned(IF x.e >= y.e THEN x ELSE y, IF x.e >= y.e THEN y ELSE x)

Fsub(x, y) == Fadd(x, Fneg(y))

\* [q, r] after bits more quotient bits of r / d (r < d)
DivStep(st, d, bits) ==
  [q |-> st.q * 2^bits + ((st.r * 2^bits) \div d), r |-> (st.r * 2^bits) % d]

\* the quotient with the sticky bit appended
DivJam(st) == Jam(st.q * 2, st.r # 0)

\* floor(n * 2^(MantBits + 2) / d) for n, d < 2^MantBits, d <= 2 n, with the
\* sticky bit appended
DivBits(n, d) ==
  DivJam(DivStep(DivStep(DivStep(DivStep(DivStep(DivStep(
    [q |-> n \div d, r |-> n % d], d, 5), d, 5), d, 5), d, 5), d, 5),
    d, MantBits - 23))

\* x / y (a division by zero does not occur in the program: every divisor is
\* a non-zero literal or guarded by a comparison)
Fdiv(x, y) ==
  IF x.nan \/ y.nan \/ y.m = 0 THEN NaN
  ELSE IF x.m = 0 THEN Zero
  ELSE Norm(x.s * y.s, DivBits(x.m, y.m), x.e - y.e - (MantBits + 3))

\* -1, 0, 1 as x < y, x = y, x > y (neither is NaN)
Fcmp(x, y) ==
  LET mag(u, v) == IF u.e # v.e THEN (IF u.e < v.e THEN -1 ELSE 1)
                   ELSE IF u.m # v.m THEN (IF u.m < v.m THEN -1 ELSE 1)
                   ELSE 0
  IN IF x.m = 0 /\ y.m = 0 THEN 0
     ELSE IF x.m = 0 THEN -y.s
     ELSE IF y.m = 0 THEN x.s
     ELSE IF x.s # y.s THEN x.s
     ELSE x.s * mag(x, y)

\* the comparisons of JavaScript: false when an operand is NaN
Flt(x, y) == ~x.nan /\ ~y.nan /\ Fcmp(x, y) < 0
Fle(x, y) == ~x.nan /\ ~y.nan /\ Fcmp(x, y) <= 0
Fgt(x, y) == Flt(y, x)
Fge(x, y) == Fle(y, x)
Feq(x, y) == ~x.nan /\ ~y.nan /\ Fcmp(x, y) = 0

\* Math.floor(x) as an integer (x is not NaN and below 2^31 in magnitude)
FloorInt(x) ==
  IF x.m = 0 THEN 0
  ELSE IF x.e >= 0 THEN x.s * x.m * 2^x.e
  ELSE IF -x.e > MantBits THEN (IF x.s = 1 THEN 0 ELSE -1)
  ELSE LET q == x.m \div 2^(-x.e)
           r == x.m % 2^(-x.e)
       IN IF x.s = 1 THEN q ELSE IF r = 0 THEN -q ELSE -q - 1

\* Math.round(x) as an integer: the nearest integer, a tie towards +Infinity
RoundInt(x) ==
  IF x.m = 0 THEN 0
  ELSE IF x.e >= 0 THEN x.s * x.m * 2^x.e
  ELSE IF -x.e > MantBits THEN 0
  ELSE LET q    == x.m \div 2^(-x.e)
           r    == x.m % 2^(-x.e)
           half == 2^(-x.e - 1)
       IN IF x.s = 1 THEN (IF r >= half THEN q + 1 ELSE q)
          ELSE (IF r > half THEN -q - 1 ELSE -q)

MathFloor(x) == IF x.nan THEN NaN ELSE FromInt(FloorInt(x))
MathRound(x) == IF x.nan THEN NaN ELSE FromInt(RoundInt(x))

\* the decimal literal n / d of the source text, as the nearest number
Lit(n, d) == Fdiv(FromInt(n), FromInt(d))

\* the literals 1.0 and 2
One == [nan |-> FALSE, s |-> 1, m |-> 2^(MantBits - 1), e |-> 1 - MantBits]
Two == [nan |-> FALSE, s |-> 1, m |-> 2^(MantBits - 1), e |-> 2 - MantBits]

RECURSIVE Product(_, _)
\* acc * factors[1] * factors[2] * ..., multiplied from left to right
Product(acc, factors) ==
  IF factors = <<>> THEN acc
  ELSE Product(Fmul(acc, Head(factors)), Tail(factors))

RECURSIVE SumProducts(_, _)
\* acc + t1 + t2 + ..., added from left to right, each term the product of
\* its factors
SumProducts(acc, terms) ==
  IF terms = <<>> THEN acc
  ELSE SumProducts(Fadd(acc, Product(Head(Head(terms)), Tail(Head(terms)))),
                   Tail(terms))

(***************************************************************************)
(* cubic.ts: class Cubic.  curves is the sequence of control values the    *)
(* object was built from; an index past its end reads undefined.           *)
(***************************************************************************)
CurveAt(curves, i) == IF i + 1 <= Len(curves) THEN curves[i + 1] ELSE NaN

\* calculate with om == 1 - m
calculateTerms(a, b, m, om) ==
  SumProducts(Product(FromInt(3), <<a, om, om, m>>),
              << <<FromInt(3), b, om, m, m>>, <<m, m, m>> >>)

\* 3.0 * a * (1 - m) * (1 - m) * m + 3.0 * b * (1 - m) * m * m + m * m * m
calculate(a, b, m) == calculateTerms(a, b, m, Fsub(One, m))

\* line 53 with the literal 0: only an exact match returns
ToleranceExact == Zero

\* the literal 0.00001 of line 53
Tolerance == Lit(1, 100000)

RECURSIVE BinarySearch(_, _, _, _, _)
\* lines 53-60, mid and xEst being the values computed on lines 51 and 52.
\* An iteration that leaves both bounds as they were is repeated for ever.
SearchCompare(curves, time, start, end, mid, xEst) ==
  IF Flt(Fabs(Fsub(time, xEst)), Tolerance)
  THEN [diverges |-> FALSE, mid |-> mid]
  ELSE IF Flt(xEst, time)
  THEN (IF mid = start THEN [diverges |-> TRUE, mid |-> mid]
        ELSE BinarySearch(curves, time, mid, mid, end))
  ELSE (IF mid = end THEN [diverges |-> TRUE, mid |-> mid]
        ELSE BinarySearch(curves, time, start, mid, mid))

\* The loop of getValue, lines 50-61, from the state (start, mid, end).  The
\* result is [diverges, mid]: the value of mid when the loop ends, diverges
\* when it never does.
BinarySearch(curves, time, start, mid, end) ==
  IF ~Flt(start, end) THEN [diverges |-> FALSE, mid |-> mid]
  ELSE SearchCompare(curves, time, start, end, Fdiv(Fadd(start, end), Two),
                     calculate(CurveAt(curves, 0), CurveAt(curves, 2),
                               Fdiv(Fadd(start, end), Two)))

\* lines 54 and 62, found being what the loop left
SearchValue(curves, found) ==
  [diverges |-> found.diverges,
   val |-> IF found.diverges THEN NaN
           ELSE calculate(CurveAt(curves, 1), CurveAt(curves, 3), found.mid)]

\* the gradient for time <= 0 with the second case taken on curves[0]
startGradientOnC0(curves) ==
  IF Fgt(CurveAt(curves, 0), Zero)
  THEN Fdiv(CurveAt(curves, 1), CurveAt(curves, 0))
  ELSE IF Feq(CurveAt(curves, 0), Zero) /\ Fgt(CurveAt(curves, 2), Zero)
  THEN Fdiv(CurveAt(curves, 3), CurveAt(curves, 2))
  ELSE Zero

\* getValue, lines 32-36: the gradient used for time <= 0
startGradient(curves) ==
  IF Fgt(CurveAt(curves, 0), Zero)
  THEN Fdiv(CurveAt(curves, 1), CurveAt(curves, 0))
  ELSE IF Feq(CurveAt(curves, 1), Zero) /\ Fgt(CurveAt(curves, 2), Zero)
  THEN Fdiv(CurveAt(curves, 3), CurveAt(curves, 2))
  ELSE Zero

\* getValue, lines 41-45: the gradient used for time >= 1
endGradient(curves) ==
  IF Flt(CurveAt(curves, 2), One)
  THEN Fdiv(Fsub(CurveAt(curves, 3), One), Fsub(CurveAt(curves, 2), One))
  ELSE IF Feq(CurveAt(curves, 2), One) /\ Flt(CurveAt(curves, 0), One)
  THEN Fdiv(Fsub(CurveAt(curves, 1), One), Fsub(CurveAt(curves, 0), One))
  ELSE Zero

\* getValue with line 46 as 1.0 + endGradient * time
getValueUnanchored(curves, time) ==
  IF Fle(time, Zero)
  THEN [diverges |-> FALSE, val |-> Fmul(startGradient(curves), time)]
  ELSE IF Fge(time, One)
  THEN [diverges |-> FALSE,
        val |-> Fadd(One, Fmul(endGradient(curves), time))]
  ELSE SearchValue(curves, BinarySearch(curves, time, Zero, Zero, One))

\* Cubic.getValue(time)
getValue(curves, time) ==
  IF Fle(time, Zero)
  THEN [diverges |-> FALSE, val |-> Fmul(startGradient(curves), time)]
  ELSE IF Fge(time, One)
  THEN [diverges |-> FALSE,
        val |-> Fadd(One, Fmul(endGradient(curves), Fsub(time, One)))]
  ELSE SearchValue(curves, BinarySearch(curves, time, Zero, Zero, One))

(***************************************************************************)
(* Text.  A string is the sequence of its characters.                      *)
(***************************************************************************)
DigitChars == {"0", "1", "2", "3", "4", "5", "6", "7", "8", "9"}

DigitVal(c) ==
  CASE c = "0" -> 0 [] c = "1" -> 1 [] c = "2" -> 2 [] c = "3" -> 3
    [] c = "4" -> 4 [] c = "5" -> 5 [] c = "6" -> 6 [] c = "7" -> 7
    [] c = "8" -> 8 [] c = "9" -> 9

\* /\d/ and /\s/ on one character
IsDigit(c) == c \in DigitChars
IsSpace(c) == c = " "

\* String.prototype.substring(n)
substring(str, n) == SubSeq(str, n + 1, Len(str))

RECURSIVE split(_, _)
\* String.prototype.split(sep) for a separator of one character
split(str, sep) ==
  IF \A k \in 1..Len(str) : str[k] # sep THEN <<str>>
  ELSE LET k == CHOOSE j \in 1..Len(str) :
                  str[j] = sep /\ \A h \in 1..(j - 1) : str[h] # sep
       IN <<SubSeq(str, 1, k - 1)>> \o split(SubSeq(str, k + 1, Len(str)), sep)

RECURSIVE replaceNonDigits(_)
\* item.replace(/[^\d]+/g, " "): every maximal run of non-digits becomes one space
replaceNonDigits(str) ==
  IF str = <<>> THEN <<>>
  ELSE IF IsDigit(Head(str)) THEN <<Head(str)>> \o replaceNonDigits(Tail(str))
  ELSE IF Len(str) > 1 /\ ~IsDigit(str[2]) THEN replaceNonDigits(Tail(str))
  ELSE <<" ">> \o replaceNonDigits(Tail(str))

RECURSIVE trimStart(_)
trimStart(str) ==
  IF str # <<>> /\ IsSpace(Head(str)) THEN trimStart(Tail(str)) ELSE str

RECURSIVE trimEnd(_)
trimEnd(str) ==
  IF str # <<>> /\ IsSpace(str[Len(str)])
  THEN trimEnd(SubSeq(str, 1, Len(str) - 1)) ELSE str

\* String.prototype.trim()
trim(str) == trimEnd(trimStart(str))

RECURSIVE splitSpaces(_)
\* String.prototype.split(/\s+/): the pieces between the maximal runs of spaces
splitSpaces(str) ==
  IF \A k \in 1..Len(str) : ~IsSpace(str[k]) THEN <<str>>
  ELSE LET k == CHOOSE j \in 1..Len(str) :
                  IsSpace(str[j]) /\ \A h \in 1..(j - 1) : ~IsSpace(str[h])
       IN <<SubSeq(str, 1, k - 1)>>
            \o splitSpaces(trimStart(SubSeq(str, k + 1, Len(str))))

RECURSIVE parseDigits(_, _)
parseDigits(str, acc) ==
  IF str = <<>> \/ ~IsDigit(Head(str)) THEN acc
  ELSE parseDigits(Tail(str), 10 * acc + DigitVal(Head(str)))

\* parseInt(str, 10) of a string that starts with a digit
parseInt(str) == parseDigits(str, 0)

(***************************************************************************)
(* transaction.ts: get2dArray, steps 2 and 3: the rows of a path string.   *)
(***************************************************************************)
PrefixLen == 9

\* the prefix taken one character short
dropPrefixShort(dAttr) == substring(dAttr, PrefixLen - 1)

\* dAttr.substring(9)
dropPrefix(dAttr) == substring(dAttr, PrefixLen)

parseRow(item) ==
  LET cleaned == trim(replaceNonDigits(item))
      parts   == IF cleaned = <<>> THEN <<>> ELSE splitSpaces(cleaned)
  IN [k \in 1..Len(parts) |-> parseInt(parts[k])]

parseFrameTable(dAttr) ==
  LET items == split(dropPrefix(dAttr), "C")
  IN [k \in 1..Len(items) |-> parseRow(items[k])]

\* the messages of the errors the program throws
ErrKeyByte == "Couldn't get KEY_BYTE indices"
ErrKey == "Couldn't get key from the page source"
ErrFrame == "Invalid frame data"
ErrMismatch == "Mismatched interpolation arguments"
ErrType == "TypeError"

(***************************************************************************)
(* interpolate and interpolateNum.  A result is [ok, val]: ok is FALSE when the call       *)
(* throws.  The sequences hold numbers (the parameters are number[]); the  *)
(* boolean branch of interpolateNum is not reached through interpolate.    *)
(***************************************************************************)
\* the blend with toVal not weighted by f
interpolateNumUnweighted(fromVal, toVal, f) ==
  Fadd(Fmul(fromVal, Fsub(One, f)), toVal)

\* fromVal * (1 - f) + toVal * f
interpolateNum(fromVal, toVal, f) ==
  Fadd(Fmul(fromVal, Fsub(One, f)), Fmul(toVal, f))

interpolate(fromList, toList, f) ==
  IF Len(fromList) # Len(toList)
  THEN [ok |-> FALSE, val |-> <<>>]
  ELSE [ok |-> TRUE,
        val |-> [k \in 1..Len(fromList) |->
                   interpolateNum(fromList[k], toList[k], f)]]

(***************************************************************************)
(* utils.ts: isOdd; transaction.ts: solve, animate, getAnimationKey.       *)
(***************************************************************************)
\* isOdd with its two results exchanged
isOddSwapped(num) == IF num % 2 # 0 THEN Zero ELSE FromInt(-1)

\* -1.0 for an odd number, 0.0 for an even one
isOdd(num) == IF num % 2 # 0 THEN FromInt(-1) ELSE Zero

\* line 186 with Math.trunc for Math.floor
solveTruncated(result, rounding) ==
  IF rounding
  THEN (IF Flt(result, Zero) THEN Fneg(MathFloor(Fneg(result)))
        ELSE MathFloor(result))
  ELSE Fdiv(MathRound(Fmul(result, FromInt(100))), FromInt(100))

\* line 186: Math.floor(result) or Math.round(result * 100) / 100
solveRounded(result, rounding) ==
  IF rounding THEN MathFloor(result)
  ELSE Fdiv(MathRound(Fmul(result, FromInt(100))), FromInt(100))

\* (value * (maxVal - minVal)) / 255 + minVal, floored or rounded to 2 places
solve(value, minVal, maxVal, rounding) ==
  solveRounded(Fadd(Fdiv(Fmul(value, Fsub(maxVal, minVal)), FromInt(255)),
                    minVal), rounding)

\* Array.prototype.slice(from, to) and an element read, of a row of integers
slice(arr, from, to) ==
  LET hi == IF to < Len(arr) THEN to ELSE Len(arr)
  IN IF from >= hi THEN <<>> ELSE SubSeq(arr, from + 1, hi)

NumAt(arr, i) == IF i >= 0 /\ i < Len(arr) THEN FromInt(arr[i + 1]) ELSE NaN

NumList(arr) == [k \in 1..Len(arr) |-> FromInt(arr[k])]

RECURSIVE toHex(_)
\* Number.prototype.toString(16) of a natural number
toHex(n) ==
  LET d == <<"0", "1", "2", "3", "4", "5", "6", "7", "8", "9",
             "a", "b", "c", "d", "e", "f">>
  IN IF n < 16 THEN <<d[n + 1]>> ELSE toHex(n \div 16) \o <<d[(n % 16) + 1]>>

\* frames.slice(7).map((item, counter) => solve(item, isOdd(counter), 1.0, false))
curvesOf(frames) ==
  [k \in 1..(Len(frames) - 7) |->
     solve(FromInt(frames[k + 7]), isOdd(k - 1), One, FALSE)]

\* frames.slice(from, to).concat(1).map(Number)
colorOf(frames, from, to) == NumList(slice(frames, from, to)) \o <<One>>

\* [solve(frames[6], 60.0, 360.0, true)]
toRotationOf(frames) ==
  <<solve(NumAt(frames, 6), FromInt(60), FromInt(360), TRUE)>>

\* value > 0 ? value : 0
clamp(value) == IF Fgt(value, Zero) THEN value ELSE Zero

\* color.slice(0, -1).map((value) => Math.round(value).toString(16))
strArrOf(color) ==
  [k \in 1..(Len(color) - 1) |-> toHex(RoundInt(clamp(color[k])))]

\* lines 210-234, color and rotation being what interpolate returned: the
\* call throws when the colours cannot be interpolated
animateKey(curves, color, rotation) ==
  IF ~color.ok
  THEN [kind |-> "throw", error |-> ErrMismatch, curves |-> curves,
        animationKey |-> <<>>]
  ELSE [kind |-> "key", error |-> "", curves |-> curves,
        animationKey |-> <<strArrOf(color.val), rotation.val[1]>>]

\* lines 208-234, res being what getValue returned
animateValue(frames, curves, res) ==
  IF res.diverges
  THEN [kind |-> "hang", error |-> "", curves |-> curves,
        animationKey |-> <<>>]
  ELSE animateKey(curves,
                  interpolate(colorOf(frames, 0, 3), colorOf(frames, 3, 6),
                              res.val),
                  interpolate(<<Zero>>, toRotationOf(frames), res.val))

\* lines 206-234, curves being the control values of the cubic
animateCurves(frames, curves, targetTime) ==
  animateValue(frames, curves, getValue(curves, targetTime))

\* animate(frames, targetTime).  The result is [kind, ...]: "key" with the
\* animation key, "throw" with the error, "hang" when getValue never returns.
\* The key is kept as its parts: the hex text of the three colour values and
\* rotation[0], the one number the four matrix entries are computed from.
animate(frames, targetTime) ==
  animateCurves(frames, curvesOf(frames), targetTime)

(***************************************************************************)
(* transaction.ts: decodeBase64, encodeBase64.  A base64 text is the       *)
(* sequence of the 6-bit values of its characters; Pad is the character =. *)
(***************************************************************************)
Pad == 64

RECURSIVE decodeBase64(_)
decodeBase64(input) ==
  IF Len(input) < 2 \/ input[1] = Pad \/ input[2] = Pad THEN <<>>
  ELSE LET b1 == input[1] * 4 + (input[2] \div 16)
       IN IF Len(input) < 3 \/ input[3] = Pad THEN <<b1>>
          ELSE LET b2 == (input[2] % 16) * 16 + (input[3] \div 4)
               IN IF Len(input) < 4 \/ input[4] = Pad THEN <<b1, b2>>
                  ELSE <<b1, b2, (input[3] % 4) * 64 + input[4]>>
                         \o decodeBase64(SubSeq(input, 5, Len(input)))

RECURSIVE encodeBase64(_)
encodeBase64(bytes) ==
  IF bytes = <<>> THEN <<>>
  ELSE IF Len(bytes) = 1
  THEN <<bytes[1] \div 4, (bytes[1] % 4) * 16, Pad, Pad>>
  ELSE IF Len(bytes) = 2
  THEN <<bytes[1] \div 4, (bytes[1] % 4) * 16 + (bytes[2] \div 16),
         (bytes[2] % 16) * 4, Pad>>
  ELSE <<bytes[1] \div 4, (bytes[1] % 4) * 16 + (bytes[2] \div 16),
         (bytes[2] % 16) * 4 + (bytes[3] \div 64), bytes[3] % 64>>
         \o encodeBase64(SubSeq(bytes, 4, Len(bytes)))

\* .replace(/=/g, "")
stripPad(text) == SelectSeq(text, LAMBDA c : c # Pad)

\* getKeyBytes(key)
getKeyBytes(key) == decodeBase64(key)

(***************************************************************************)
(* transaction.ts: getKey, getFrames, get2dArray, getAnimationKey.         *)
(* A document is [scriptRef, verification, frames]: whether its markup     *)
(* holds the ondemand.s reference, the content of the                      *)
(* twitter-site-verification element ([present, content]) and the d        *)
(* attribute ([present, text]) of the path under each loading-x-anim       *)
(* element, in document order.  A step that throws gives [throws, error].  *)
(***************************************************************************)
getKey(response) ==
  LET content == IF response.verification.present
                 THEN response.verification.content ELSE <<>>
  IN IF content = <<>> THEN [throws |-> TRUE, error |-> ErrKey, key |-> <<>>]
     ELSE [throws |-> FALSE, error |-> "", key |-> content]

getFrames(response) == response.frames

\* lines 150-168, dAttr being the d attribute of the selected path
frameTable(dAttr) ==
  IF ~dAttr.present THEN [throws |-> FALSE, arr |-> <<>>]
  ELSE [throws |-> FALSE, arr |-> parseFrameTable(dAttr.text)]

\* lines 139-168, frames being what getFrames returned: a TypeError when the
\* selected frame does not exist (keyBytes[5] undefined, or past the end)
selectFrame(keyBytes, frames) ==
  IF frames = <<>> THEN [throws |-> FALSE, arr |-> << <<>> >>]
  ELSE IF Len(keyBytes) < 6 \/ (keyBytes[6] % 4) + 1 > Len(frames)
  THEN [throws |-> TRUE, arr |-> <<>>]
  ELSE frameTable(frames[(keyBytes[6] % 4) + 1])

\* get2dArray(keyBytes, response)
get2dArray(keyBytes, response) == selectFrame(keyBytes, getFrames(response))

\* keyBytes[i] % 16 as a number: NaN when keyBytes[i] is undefined
KeyNibble(keyBytes, i) ==
  IF i < Len(keyBytes) THEN FromInt(keyBytes[i + 1] % 16) ELSE NaN

RECURSIVE reduceProduct(_, _, _)
\* keyByteIndices.reduce((num1, num2) => num1 * (keyBytes[num2] % 16), 1)
reduceProduct(keyBytes, keyByteIndices, num1) ==
  IF keyByteIndices = <<>> THEN num1
  ELSE reduceProduct(keyBytes, Tail(keyByteIndices),
                     Fmul(num1, KeyNibble(keyBytes, Head(keyByteIndices))))

\* lines 256-259 with Math.floor for Math.round
frameTimeFloored(keyBytes, keyByteIndices) ==
  Fmul(MathFloor(Fdiv(reduceProduct(keyBytes, keyByteIndices, One),
                      FromInt(10))), FromInt(10))

\* lines 256-259: Math.round(frameTime / 10) * 10
frameTimeOf(keyBytes, keyByteIndices) ==
  Fmul(MathRound(Fdiv(reduceProduct(keyBytes, keyByteIndices, One),
                      FromInt(10))), FromInt(10))

TotalTime == 4096

\* lines 262-268, rowIndexValue being keyBytes[rowIndex] % 16
selectRow(arr, rowIndexValue, targetTime) ==
  IF IsNaN(rowIndexValue) \/ FloorInt(rowIndexValue) + 1 > Len(arr)
  THEN [kind |-> "throw", error |-> ErrFrame, curves |-> <<>>,
        animationKey |-> <<>>]
  ELSE animate(arr[FloorInt(rowIndexValue) + 1], targetTime)

\* lines 253-270 of getAnimationKey, arr being what get2dArray returned
synthesize(keyBytes, arr, rowIndex, keyByteIndices) ==
  selectRow(arr, KeyNibble(keyBytes, rowIndex),
            Fdiv(frameTimeOf(keyBytes, keyByteIndices), FromInt(TotalTime)))

\* lines 261-270, got being what get2dArray returned or threw
synthesizeFrom(keyBytes, got, rowIndex, keyByteIndices) ==
  IF got.throws
  THEN [kind |-> "throw", error |-> ErrType, curves |-> <<>>,
        animationKey |-> <<>>]
  ELSE synthesize(keyBytes, got.arr, rowIndex, keyByteIndices)

getAnimationKey(keyBytes, response, rowIndex, keyByteIndices) ==
  synthesizeFrom(keyBytes, get2dArray(keyBytes, response), rowIndex,
                 keyByteIndices)

(***************************************************************************)
(* transaction.ts: generateTransactionId.  method, path and animationKey   *)
(* are the sequences of the character codes of their text, key is a base64 *)
(* text.  timeNow is [given, val]: the optional argument.  dateNow is      *)
(* Date.now() as [sec, ms], that is 1000 * sec + ms.                       *)
(***************************************************************************)
ADDITIONAL_RANDOM_NUMBER == 3
DEFAULT_KEYWORD ==
  <<111, 98, 102, 105, 111, 119, 101, 114, 101, 104, 105, 114, 105, 110, 103>>
EpochSeconds == 1682924400

RECURSIVE xor(_, _)
\* a ^ b for a, b >= 0
xor(a, b) ==
  IF a = 0 THEN b ELSE IF b = 0 THEN a
  ELSE ((a + b) % 2) + 2 * xor(a \div 2, b \div 2)

RECURSIVE decimal(_)
\* the character codes of `${n}`
decimal(n) ==
  IF n < 0 THEN <<45>> \o decimal(-n)
  ELSE IF n < 10 THEN <<48 + n>>
  ELSE decimal(n \div 10) \o <<48 + (n % 10)>>

\* Math.floor((Date.now() - 1682924400 * 1000) / 1000)
wallClock(dateNow) ==
  ((dateNow.sec - EpochSeconds) * 1000 + dateNow.ms) \div 1000

\* timeNow || Math.floor(...): the argument unless it is undefined or 0
effectiveTime(timeNow, dateNow) ==
  IF timeNow.given /\ timeNow.val # 0 THEN timeNow.val ELSE wallClock(dateNow)

\* [t & 0xff, (t >> 8) & 0xff, (t >> 16) & 0xff, (t >> 24) & 0xff]
timeNowBytes(t) ==
  <<t % 256, (t \div 256) % 256, (t \div 65536) % 256, (t \div 16777216) % 256>>

RECURSIVE digestByte(_, _, _)
digestByte(data, i, h) ==
  IF data = <<>> THEN h
  ELSE digestByte(Tail(data), i, (h * 31 + Head(data) * (i + 1) + i) % 256)

\* crypto.subtle.digest("SHA-256", data): 32 bytes that are a function of
\* data alone.  SHA-256 itself is the platform's; this stands for it.
digest(data) == [i \in 1..32 |-> digestByte(data, i, 7 * i)]

\* `${method}!${path}!${timeNow}${DEFAULT_KEYWORD}${animationKey}`
hashData(method, path, t, animationKey) ==
  method \o <<33>> \o path \o <<33>> \o decimal(t) \o DEFAULT_KEYWORD
    \o animationKey

\* lines 336-341: the bytes that are masked
bytesArr(method, path, key, animationKey, t) ==
  getKeyBytes(key) \o timeNowBytes(t)
    \o SubSeq(digest(hashData(method, path, t, animationKey)), 1, 16)
    \o <<ADDITIONAL_RANDOM_NUMBER>>

\* lines 343-346: the bytes that are encoded
maskedBytes(plain, randomNum) ==
  <<randomNum>> \o [k \in 1..Len(plain) |-> xor(plain[k], randomNum)]

\* the call: [out, token], the bytes encoded and the text returned
generateTransactionId(method, path, key, animationKey, timeNow, dateNow, randomNum) ==
  LET t   == effectiveTime(timeNow, dateNow)
      out == maskedBytes(bytesArr(method, path, key, animationKey, t), randomNum)
  IN [out |-> out, token |-> stripPad(encodeBase64(out))]

(***************************************************************************)
(* transaction.ts: INDICES_REGEX and the loop of getIndices.  The script   *)
(* text is the sequence of its pieces: the capture (the digits d of a      *)
(* "(w[d], 16)") where the pattern matches, the empty text elsewhere.      *)
(* lastIndex is the state of the regular expression, which the module      *)
(* holds once for all calls.                                               *)
(***************************************************************************)
\* INDICES_REGEX.exec(responseText) from lastIndex: [found, capture, lastIndex]
regexExec(responseText, from) ==
  IF \A k \in (from + 1)..Len(responseText) : responseText[k] = <<>>
  THEN [found |-> FALSE, capture |-> <<>>, lastIndex |-> 0]
  ELSE LET k == CHOOSE j \in (from + 1)..Len(responseText) :
                  /\ responseText[j] # <<>>
                  /\ \A h \in (from + 1)..(j - 1) : responseText[h] = <<>>
       IN [found |-> TRUE, capture |-> responseText[k], lastIndex |-> k]

\* lines 71-73 with an if for the while: one exec, its capture kept
matchLoopOnce(responseText, from, keyByteIndices) ==
  LET match == regexExec(responseText, from)
  IN IF ~match.found
     THEN [keyByteIndices |-> keyByteIndices, lastIndex |-> match.lastIndex]
     ELSE [keyByteIndices |-> Append(keyByteIndices, match.capture),
           lastIndex |-> match.lastIndex]

RECURSIVE matchLoop(_, _, _)
\* lines 71-73: [keyByteIndices, lastIndex] when the loop ends
matchLoop(responseText, from, keyByteIndices) ==
  LET match == regexExec(responseText, from)
  IN IF ~match.found
     THEN [keyByteIndices |-> keyByteIndices, lastIndex |-> match.lastIndex]
     ELSE matchLoop(responseText, match.lastIndex,
                    Append(keyByteIndices, match.capture))

\* lines 84-85: keyByteIndices.map((index) => parseInt(index, 10))
numericIndices(keyByteIndices) ==
  [k \in 1..Len(keyByteIndices) |-> parseInt(keyByteIndices[k])]

(***************************************************************************)
(* The documents, responses and arguments the model runs the program on.   *)
(***************************************************************************)
KeyBytesA == <<0, 1, 2, 3, 4, 5, 6, 7>>
KeyBytesB == <<16, 33, 2, 3, 4, 4>>
KeyA == stripPad(encodeBase64(KeyBytesA))
KeyB == stripPad(encodeBase64(KeyBytesB))

\* "M0,0C0,0 10 20 30 40 50 60 128 5 5 5 5C1,2,3CC9 8 7 6 5 4 3": the rows
\* <<10, 20, 30, 40, 50, 60, 128, 5, 5, 5, 5>>, <<1, 2, 3>>, <<>> and
\* <<9, 8, 7, 6, 5, 4, 3>>
TableText ==
  <<"M", "0", ",", "0", "C", "0", ",", "0", " ",
    "1", "0", " ", "2", "0", " ", "3", "0", " ", "4", "0", " ", "5", "0", " ",
    "6", "0", " ", "1", "2", "8", " ", "5", " ", "5", " ", "5", " ", "5",
    "C", "1", ",", "2", ",", "3", "C", "C",
    "9", " ", "8", " ", "7", " ", "6", " ", "5", " ", "4", " ", "3">>

NoPath == [present |-> FALSE, text |-> <<>>]
Path == [present |-> TRUE, text |-> TableText]

DocOk == [scriptRef |-> TRUE,
          verification |-> [present |-> TRUE, content |-> KeyA],
          frames |-> <<NoPath, Path, Path, Path>>]
Docs ==
  { DocOk,
    [DocOk EXCEPT !.scriptRef = FALSE],
    [DocOk EXCEPT !.verification = [present |-> FALSE, content |-> <<>>]],
    [DocOk EXCEPT !.frames = <<>>],
    [DocOk EXCEPT !.verification.content = KeyB],
    [DocOk EXCEPT !.frames = <<Path>>] }

Junk == <<>>
Cap(n) == IF n < 10 THEN <<(<<"0", "1", "2", "3", "4", "5", "6", "7", "8", "9">>)[n + 1]>>
          ELSE <<"1", (<<"0", "1", "2", "3", "4", "5", "6", "7", "8", "9">>)[n - 9]>>
Scripts ==
  { <<Junk, Junk>>,
    <<Junk, Cap(0), Junk, Cap(2), Cap(5)>>,
    <<Cap(0), Junk, Cap(1)>>,
    <<Cap(1), Cap(1), Junk>>,
    <<Junk, Cap(2), Cap(1)>>,
    <<Cap(3)>>,
    <<Cap(12), Junk, Cap(1)>> }

(***************************************************************************)
(* The state.                                                              *)
(*   args, ret   a call of one function of the program and what it         *)
(*               returned (<<>> before it returns)                         *)
(*   now, calls  Date.now() and the calls of generateTransactionId made    *)
(*   sess        the calls of create: per call its place in the code and   *)
(*               what it holds                                             *)
(*   lastIndex   INDICES_REGEX.lastIndex                                   *)
(***************************************************************************)
VARIABLES args, ret, now, calls, sess, lastIndex

vars == <<args, ret, now, calls, sess, lastIndex>>

NoCall == args = <<>> /\ ret = <<>>
NoToken == now = [sec |-> EpochSeconds, ms |-> 0] /\ calls = <<>>
NoSession == sess = <<>> /\ lastIndex = 0

(***************************************************************************)
(* create(homePageDocument).  A call is at "idle" (not made yet), "fetch"  *)
(* (awaiting fetch), "text" (awaiting response.text()), "indices"          *)
(* (getIndices has returned, create not yet resumed), "done" (returned     *)
(* {key, animationKey}), "failed" (threw error) or "hang" (in a loop that  *)
(* does not end).  cause records the stage that failed, fetches counts the *)
(* fetches and script is the text the call read; none is visible to the    *)
(* caller.                                                                 *)
(***************************************************************************)
Sessions == {1, 2}

NoDoc == [scriptRef |-> FALSE,
          verification |-> [present |-> FALSE, content |-> <<>>],
          frames |-> <<>>]

NewSession ==
  [pc |-> "idle", doc |-> NoDoc, fetches |-> 0, script |-> <<>>, rowIndex |-> 0,
   keyByteIndices |-> <<>>, key |-> <<>>, animationKey |-> <<>>,
   error |-> "", cause |-> ""]

\* a failure after which the call starts over
FailRetry(session, error, cause) ==
  [session EXCEPT !.pc = "idle", !.error = error, !.cause = cause]

\* throw error: the call of create ends
Fail(session, error, cause) ==
  [session EXCEPT !.pc = "failed", !.error = error, !.cause = cause]

\* lines 49-58: the call, up to the fetch
Start(s, doc) ==
  /\ sess[s].pc = "idle"
  /\ sess' = [sess EXCEPT ![s] =
       IF doc.scriptRef
       THEN [@ EXCEPT !.pc = "fetch", !.doc = doc, !.fetches = @ + 1]
       ELSE Fail([@ EXCEPT !.doc = doc], ErrKeyByte, "noScriptRef")]
  /\ UNCHANGED <<args, ret, now, calls, lastIndex>>

\* lines 58-66 and 74-81: the fetch settles: ok, a response that is not ok,
\* or a rejection
FetchSettles(s, outcome) ==
  /\ sess[s].pc = "fetch"
  /\ sess' = [sess EXCEPT ![s] =
       IF outcome = "ok" THEN [@ EXCEPT !.pc = "text"]
       ELSE Fail(@, ErrKeyByte, "fetchFailed")]
  /\ UNCHANGED <<args, ret, now, calls, lastIndex>>

\* lines 66-86: the body arrives (or its read is rejected) and getIndices
\* runs to its end
TextSettles(s, ok, responseText) ==
  /\ sess[s].pc = "text"
  /\ LET loop == matchLoop(responseText, 0, <<>>)
         nums == numericIndices(loop.keyByteIndices)
     IN IF ~ok
        THEN /\ sess' = [sess EXCEPT ![s] = Fail(@, ErrKeyByte, "fetchFailed")]
             /\ UNCHANGED lastIndex
        ELSE /\ lastIndex' = loop.lastIndex
             /\ sess' = [sess EXCEPT ![s] =
                  IF nums = <<>>
                  THEN Fail([@ EXCEPT !.script = responseText],
                            ErrKeyByte, "noIndices")
                  ELSE [@ EXCEPT !.pc = "indices", !.script = responseText,
                                 !.rowIndex = nums[1],
                                 !.keyByteIndices = Tail(nums)]]
  /\ UNCHANGED <<args, ret, now, calls>>

\* lines 283-295, got being what getKey returned or threw and anim what
\* getAnimationKey did
Returned(session, got, anim) ==
  IF got.throws THEN Fail(session, got.error, "getKey")
  ELSE IF anim.kind = "throw" THEN Fail(session, anim.error, "getAnimationKey")
  ELSE IF anim.kind = "hang" THEN [session EXCEPT !.pc = "hang"]
  ELSE [session EXCEPT !.pc = "done", !.key = got.key,
                       !.animationKey = anim.animationKey]

\* lines 286-292, got being what getKey returned
Synthesized(session, got) ==
  Returned(session, got,
           getAnimationKey(getKeyBytes(got.key), session.doc, session.rowIndex,
                           session.keyByteIndices))

\* lines 281-297: create resumes after getIndices
Resume(s) ==
  /\ sess[s].pc = "indices"
  /\ sess' = [sess EXCEPT ![s] = Synthesized(@, getKey(@.doc))]
  /\ UNCHANGED <<args, ret, now, calls, lastIndex>>

Init ==
  /\ NoCall /\ NoToken
  /\ sess = [s \in Sessions |-> NewSession]
  /\ lastIndex = 0

Next ==
  \E s \in Sessions :
    \/ \E doc \in Docs : Start(s, doc)
    \/ \E outcome \in {"ok", "notOk", "rejected"} : FetchSettles(s, outcome)
    \/ \E ok \in BOOLEAN, responseText \in Scripts : TextSettles(s, ok, responseText)
    \/ Resume(s)

Spec == Init /\ [][Next]_vars

(***************************************************************************)
(* Cubic.getValue on its own: one call new Cubic(curves).getValue(time),   *)
(* for four control values and a time that cover every branch of lines     *)
(* 31-47 and the search of lines 49-62.                                    *)
(***************************************************************************)
Grid == {Fneg(Lit(1, 2)), Zero, Lit(1, 4), One, Lit(3, 2)}
Times == {Fneg(Two), Fneg(Lit(1, 2)), Zero, Lit(1, 4), Lit(1, 2), One, Two}

InitCubic ==
  /\ NoToken /\ NoSession
  /\ args \in [curves : [1..4 -> Grid], time : Times]
  /\ ret = <<>>

CallGetValue ==
  /\ ret = <<>>
  /\ ret' = <<getValue(args.curves, args.time)>>
  /\ UNCHANGED <<args, now, calls, sess, lastIndex>>

SpecCubic == InitCubic /\ [][CallGetValue]_vars

\* C7 as the spec states it: for time <= 0 getValue returns gradient * time,
\* with gradient = c1/c0 if c0 > 0, else c3/c2 if c0 = 0 and c2 > 0, else 0
\* (c0..c3 being the four controls).
C7_GradientOnC0 ==
  (ret # <<>> /\ Fle(args.time, Zero)) =>
    LET c0 == args.curves[1]
        c1 == args.curves[2]
        c2 == args.curves[3]
        c3 == args.curves[4]
    IN /\ ~ret[1].diverges
       /\ ret[1].val =
            Fmul(IF Fgt(c0, Zero) THEN Fdiv(c1, c0)
                 ELSE IF Feq(c0, Zero) /\ Fgt(c2, Zero) THEN Fdiv(c3, c2)
                 ELSE Zero, args.time)

\* C7, amended: for time <= 0 getValue returns gradient * time, with
\* gradient = c1/c0 if c0 > 0, else c3/c2 if c1 = 0 and c2 > 0, else 0: the
\* second case is taken on c1 being zero (c0 being zero or negative).
C7_GradientOnC1 ==
  (ret # <<>> /\ Fle(args.time, Zero)) =>
    LET c0 == args.curves[1]
        c1 == args.curves[2]
        c2 == args.curves[3]
        c3 == args.curves[4]
    IN /\ ~ret[1].diverges
       /\ ret[1].val =
            Fmul(IF Fgt(c0, Zero) THEN Fdiv(c1, c0)
                 ELSE IF Feq(c1, Zero) /\ Fgt(c2, Zero) THEN Fdiv(c3, c2)
                 ELSE Zero, args.time)

\* a call with time < 0 whose second case is taken with c0 < 0: c1 = 0,
\* c2 > 0, c3 > 0, and the value returned is not 0
C7_Witness ==
  /\ ret # <<>> /\ Flt(args.time, Zero)
  /\ Flt(args.curves[1], Zero) /\ Feq(args.curves[2], Zero)
  /\ Fgt(args.curves[3], Zero) /\ Fgt(args.curves[4], Zero)
  /\ ret[1].val # Zero

\* C8: for every four control values getValue(0) is 0 and getValue(1) is 1.
C8_Endpoints ==
  ret # <<>> =>
    /\ args.time = Zero => (~ret[1].diverges /\ ret[1].val = Zero)
    /\ args.time = One => (~ret[1].diverges /\ ret[1].val = One)

\* getValue(1) has returned for controls whose end gradient is not zero:
\* c2 < 1 and c3 # 1
C8_Witness ==
  /\ ret # <<>> /\ args.time = One
  /\ Flt(args.curves[3], One) /\ ~Feq(args.curves[4], One)

(***************************************************************************)
(* The search of Cubic.getValue, lines 49-62, one iteration at a time.     *)
(* The state of the loop is the record [start, mid, end] of the three      *)
(* locals, with steps the number of iterations begun, returned whether     *)
(* getValue has returned and val what it returned.                         *)
(***************************************************************************)
\* lines 53-60 of one iteration, mid and xEst being the values of lines 51
\* and 52
SearchIterate(curves, time, st, mid, xEst) ==
  IF Flt(Fabs(Fsub(time, xEst)), Tolerance)
  THEN [start |-> st.start, mid |-> mid, end |-> st.end,
        steps |-> st.steps + 1, returned |-> TRUE,
        val |-> calculate(CurveAt(curves, 1), CurveAt(curves, 3), mid)]
  ELSE IF Flt(xEst, time)
  THEN [start |-> mid, mid |-> mid, end |-> st.end,
        steps |-> st.steps + 1, returned |-> FALSE, val |-> NaN]
  ELSE [start |-> st.start, mid |-> mid, end |-> mid,
        steps |-> st.steps + 1, returned |-> FALSE, val |-> NaN]

\* the test of line 50 and then either one iteration or the return of line 62
SearchStep(curves, time, st) ==
  IF ~Flt(st.start, st.end)
  THEN [start |-> st.start, mid |-> st.mid, end |-> st.end,
        steps |-> st.steps, returned |-> TRUE,
        val |-> calculate(CurveAt(curves, 1), CurveAt(curves, 3), st.mid)]
  ELSE SearchIterate(curves, time, st, Fdiv(Fadd(st.start, st.end), Two),
                     calculate(CurveAt(curves, 0), CurveAt(curves, 2),
                               Fdiv(Fadd(st.start, st.end), Two)))

\* getValue(time) for 0 < time < 1 has reached line 50: start = 0.0,
\* mid = 0.0, end = 1.0 (lines 26-28).  A control is a number or, read past
\* the end of curves, undefined.
InitSearch ==
  /\ NoToken /\ NoSession
  /\ args \in [curves : [1..4 -> {Fneg(One), Zero, Lit(1, 2), One,
                                  Lit(3, 2), NaN}],
               time : {Lit(1, 1000000), Lit(1, 4), Lit(3, 4)}]
  /\ ret = <<[start |-> Zero, mid |-> Zero, end |-> One,
              steps |-> 0, returned |-> FALSE, val |-> NaN]>>

\* one step of the loop; a call is followed for 2 * ExpRange iterations
LoopStep ==
  /\ ~ret[1].returned
  /\ ret[1].steps < 2 * ExpRange
  /\ ret' = <<SearchStep(args.curves, args.time, ret[1])>>
  /\ UNCHANGED <<args, now, calls, sess, lastIndex>>

SpecSearch == InitSearch /\ [][LoopStep]_vars

\* C11: for controls that are all in [-1, 1] and 0 < time < 1 the search
\* ends after a bounded number of halvings: no call begins more than 20
\* iterations (the slope of calculate(c0, c2, m) is at most 6 on [0, 1], so
\* the midpoint of a bracket of width 2^-19 is within 6 * 2^-20 < 0.00001 of
\* time), and when getValue has returned, the value is a number,
\* calculate(c1, c3, m) for the last midpoint m, with 0 <= m <= 1, and it is
\* what getValue gives in one piece.
C11_SearchTerminates ==
  (\A i \in 1..4 : /\ ~IsNaN(args.curves[i])
                   /\ Fle(Fneg(One), args.curves[i])
                   /\ Fle(args.curves[i], One)) =>
    /\ ret[1].steps <= 20
    /\ ret[1].returned =>
         /\ Fle(Zero, ret[1].mid) /\ Fle(ret[1].mid, One)
         /\ ~IsNaN(ret[1].val)
         /\ ret[1].val = calculate(args.curves[2], args.curves[4], ret[1].mid)
         /\ getValue(args.curves, args.time) =
              [diverges |-> FALSE, val |-> ret[1].val]

\* a search with controls in [-1, 1], one of them negative, that has
\* returned on a match after more than ten halvings
C11_Witness ==
  /\ \A i \in 1..4 : /\ ~IsNaN(args.curves[i])
                     /\ Fle(Fneg(One), args.curves[i])
                     /\ Fle(args.curves[i], One)
  /\ Flt(args.curves[1], Zero)
  /\ ret[1].returned /\ ret[1].steps > 10
  /\ Flt(ret[1].start, ret[1].end)

(***************************************************************************)
(* interpolate on its own: one call interpolate(fromList, toList, f) for   *)
(* lists of up to MaxVecLen numbers.                                       *)
(***************************************************************************)
MaxVecLen == 2

Numbers == {Zero, One, FromInt(3), Lit(1, 10)}
Lists == UNION {[1..n -> Numbers] : n \in 0..MaxVecLen}

InitInterp ==
  /\ NoToken /\ NoSession
  /\ args \in [fromList : Lists, toList : Lists, f : {Zero, Lit(1, 10), Lit(1, 5), Lit(1, 2), One}]
  /\ ret = <<>>

CallInterpolate ==
  /\ ret = <<>>
  /\ ret' = <<interpolate(args.fromList, args.toList, args.f)>>
  /\ UNCHANGED <<args, now, calls, sess, lastIndex>>

SpecInterp == InitInterp /\ [][CallInterpolate]_vars

\* C9 as the spec states it: interpolate throws exactly when the lengths
\* differ; otherwise the result has the length of the arguments and element i
\* is from[i] * (1 - f) + to[i] * f, and interpolate(A, A, f) is A for every f.
C9_Idempotent ==
  ret # <<>> =>
    /\ ret[1].ok <=> Len(args.fromList) = Len(args.toList)
    /\ ret[1].ok =>
         /\ Len(ret[1].val) = Len(args.fromList)
         /\ \A k \in 1..Len(args.fromList) :
              ret[1].val[k] =
                Fadd(Fmul(args.fromList[k], Fsub(One, args.f)),
                     Fmul(args.toList[k], args.f))
         /\ args.fromList = args.toList => ret[1].val = args.fromList

\* C9, amended: interpolate throws exactly when the lengths differ, producing
\* no result; otherwise the result has the length of the arguments and
\* element i is from[i] * (1 - f) + to[i] * f in the arithmetic of numbers,
\* so that interpolate(A, A, f) is A when f is 0 or 1 (for another f the two
\* rounded products need not add up to A[i]).
C9_IdempotentAtEnds ==
  ret # <<>> =>
    /\ ret[1].ok <=> Len(args.fromList) = Len(args.toList)
    /\ ~ret[1].ok => ret[1].val = <<>>
    /\ ret[1].ok =>
         /\ Len(ret[1].val) = Len(args.fromList)
         /\ \A k \in 1..Len(args.fromList) :
              ret[1].val[k] =
                Fadd(Fmul(args.fromList[k], Fsub(One, args.f)),
                     Fmul(args.toList[k], args.f))
         /\ (args.fromList = args.toList /\ args.f \in {Zero, One})
              => ret[1].val = args.fromList

\* interpolate(A, A, f) has returned A for a list A of two different
\* numbers and f = 1
C9_Witness ==
  /\ ret # <<>> /\ ret[1].ok
  /\ args.fromList = args.toList /\ Len(args.fromList) = 2
  /\ args.fromList[1] # args.fromList[2] /\ args.f = One
  /\ ret[1].val = args.fromList

(***************************************************************************)
(* The parser of get2dArray (lines 157-168) on its own: one d attribute,   *)
(* made of a prefix of 0, 8, 9 or 10 characters and up to MaxRest more     *)
(* characters, or the text "M1,2,3C4,5,6C7,8,9".                           *)
(***************************************************************************)
MaxRest == 4

Prefixes ==
  { <<>>,
    <<"M", "0", ",", "0", "C", "0", ",", "7">>,
    <<"M", "1", ",", "2", ",", "3", "C", "4", ",">>,
    <<"M", "1", "0", ",", "2", "0", "C", "3", "0", "7">> }
ExampleText ==
  <<"M", "1", ",", "2", ",", "3", "C", "4", ",", "5", ",", "6", "C", "7",
    ",", "8", ",", "9">>
PathTexts ==
  {p \o r : p \in Prefixes,
           r \in UNION {[1..n -> {"C", "7", "0", ","}] : n \in 0..MaxRest}}
    \cup {ExampleText}

InitParse ==
  /\ NoToken /\ NoSession
  /\ args \in PathTexts
  /\ ret = <<>>

CallParseFrameTable ==
  /\ ret = <<>>
  /\ ret' = <<parseFrameTable(args)>>
  /\ UNCHANGED <<args, now, calls, sess, lastIndex>>

SpecParse == InitParse /\ [][CallParseFrameTable]_vars

\* C10: the rows are those of the text after its first 9 characters: one
\* row per segment between the "C"s, in order, each row the values in base
\* 10 of the segment's maximal runs of digits, in order (an empty row for a
\* segment without digits); "M1,2,3C4,5,6C7,8,9" gives [[5,6],[7,8,9]].
C10_Rows ==
  ret # <<>> =>
    LET rest == [k \in 1..(IF Len(args) > 9 THEN Len(args) - 9 ELSE 0) |->
                   args[k + 9]]
        n    == Len(rest)
        cuts == {0} \cup {k \in 1..n : rest[k] = "C"} \cup {n + 1}
        \* the cut with i cuts before it
        cut(i) == CHOOSE c \in cuts : Cardinality({d \in cuts : d < c}) = i
        \* the value of the run of digits that ends at k
        value[k \in 0..n] ==
          IF k = 0 \/ rest[k] \notin DigitChars THEN 0
          ELSE 10 * value[k - 1] + DigitVal(rest[k])
        \* where the maximal runs of digits of segment i end
        ends(i) == {b \in (cut(i - 1) + 1)..(cut(i) - 1) :
                      /\ rest[b] \in DigitChars
                      /\ b = n \/ rest[b + 1] \notin DigitChars}
    IN /\ Len(ret[1]) = Cardinality(cuts) - 1
       /\ \A i \in 1..Len(ret[1]) :
            /\ Len(ret[1][i]) = Cardinality(ends(i))
            /\ \A b \in ends(i) :
                 ret[1][i][1 + Cardinality({e \in ends(i) : e < b})] = value[b]
       /\ args = ExampleText => ret[1] = << <<5, 6>>, <<7, 8, 9>> >>

\* the text of the example has been parsed
C10_Witness ==
  /\ ret # <<>> /\ args = ExampleText
  /\ ret[1] = << <<5, 6>>, <<7, 8, 9>> >>

(***************************************************************************)
(* Lines 253-270 of getAnimationKey on their own: one frame table arr (as  *)
(* get2dArray returns it), the key bytes and the indices.  A table has one *)
(* row: seven entries followed by up to MaxCurves more, or a shorter row;  *)
(* or it has no row at all.                                                *)
(***************************************************************************)
MaxCurves == 4

RowHead == <<10, 20, 30, 40, 50, 60, 128>>
Rows == {RowHead \o t : t \in UNION {[1..n -> {0, 128, 255}] : n \in 0..MaxCurves}}
          \cup {<<>>, <<1, 2, 3>>, <<1, 2, 3, 4, 5, 6>>}
Tables == {<<r>> : r \in Rows} \cup {<<>>}
IndexLists == {<<1>>, <<2, 5>>, <<7, 7, 7>>, <<7, 7, 7, 7, 7>>, <<9>>}

InitAnimate ==
  /\ NoToken /\ NoSession
  /\ args \in [keyBytes : {KeyBytesA}, arr : Tables, rowIndex : {0, 1, 9},
               keyByteIndices : IndexLists]
  /\ ret = <<>>

CallSynthesize ==
  /\ ret = <<>>
  /\ ret' = <<synthesize(args.keyBytes, args.arr, args.rowIndex,
                         args.keyByteIndices)>>
  /\ UNCHANGED <<args, now, calls, sess, lastIndex>>

SpecAnimate == InitAnimate /\ [][CallSynthesize]_vars

\* the call has returned or thrown and arr[rowIndexValue] was a row
RowSelected == ret # <<>> /\ args.rowIndex = 0 /\ args.arr # <<>>

\* C3 as the spec states it: the control at position i (from 0) of
\* frameRow[7:] is solve(value, lower, 1, false) with lower = -1 for an even
\* i and lower = 0 for an odd i.
C3_LowerOnEven ==
  RowSelected =>
    /\ Len(ret[1].curves) = IF Len(args.arr[1]) > 7 THEN Len(args.arr[1]) - 7 ELSE 0
    /\ \A k \in 1..Len(ret[1].curves) :
         ret[1].curves[k] =
           solve(FromInt(args.arr[1][k + 7]),
                 IF (k - 1) % 2 = 0 THEN FromInt(-1) ELSE Zero, One, FALSE)

\* C3, amended: the control at position i (from 0) of frameRow[7:] is
\* solve(value, lower, 1, false) with lower = -1 for an odd i and lower = 0
\* for an even i, for every row and every position.
C3_LowerOnOdd ==
  RowSelected =>
    /\ Len(ret[1].curves) = IF Len(args.arr[1]) > 7 THEN Len(args.arr[1]) - 7 ELSE 0
    /\ \A k \in 1..Len(ret[1].curves) :
         ret[1].curves[k] =
           solve(FromInt(args.arr[1][k + 7]),
                 IF (k - 1) % 2 = 0 THEN Zero ELSE FromInt(-1), One, FALSE)

\* a key was made from a row whose four last entries are 0: the controls at
\* the even positions are 0 and those at the odd positions are -1
C3_Witness ==
  /\ RowSelected /\ ret[1].kind = "key"
  /\ args.arr[1] = RowHead \o <<0, 0, 0, 0>>
  /\ ret[1].curves = <<Zero, FromInt(-1), Zero, FromInt(-1)>>

\* C5 as the spec states it: a selected row that does not have exactly four
\* entries after its first seven makes the call fail with "Invalid frame
\* data", and no animation key is returned.
C5_RowLengthChecked ==
  (RowSelected /\ Len(args.arr[1]) # 11) =>
    (ret[1].kind = "throw" /\ ret[1].error = ErrFrame)

\* a key was returned for a row of seven entries
C5_Witness ==
  /\ RowSelected /\ Len(args.arr[1]) = 7
  /\ ret[1].kind = "key"

(***************************************************************************)
(* Lines 255-259 of getAnimationKey on their own: the frame time of the    *)
(* key bytes and of up to MaxIndices indices, an index being a place of    *)
(* keyBytes or, 9, a place past its end.                                   *)
(***************************************************************************)
MaxIndices == 3

InitFrameTime ==
  /\ NoToken /\ NoSession
  /\ args \in [keyBytes : {KeyBytesA, <<5, 15, 3, 7, 250, 29, 1, 16>>},
               keyByteIndices :
                 UNION {[1..n -> 0..7 \cup {9}] : n \in 0..MaxIndices}]
  /\ ret = <<>>

CallFrameTime ==
  /\ ret = <<>>
  /\ ret' = <<frameTimeOf(args.keyBytes, args.keyByteIndices)>>
  /\ UNCHANGED <<args, now, calls, sess, lastIndex>>

SpecFrameTime == InitFrameTime /\ [][CallFrameTime]_vars

\* C14: for indices that are places of keyBytes the frame time is the
\* product p, starting from 1, of keyBytes[idx] % 16 over keyByteIndices,
\* rounded to a multiple of 10: it is 10 * floor((p + 5) / 10), a multiple of
\* 10 that differs from p by 5 at most, and p + 5 when p ends in 5.
C14_FrameTime ==
  (ret # <<>> /\ \A k \in 1..Len(args.keyByteIndices) :
                   args.keyByteIndices[k] < Len(args.keyBytes)) =>
    LET RECURSIVE product(_)
        product(n) ==
          IF n = 0 THEN 1
          ELSE product(n - 1)
                 * (args.keyBytes[args.keyByteIndices[n] + 1] % 16)
        p == product(Len(args.keyByteIndices))
        t == 10 * ((p + 5) \div 10)
    IN /\ ret[1] = FromInt(t)
       /\ t % 10 = 0 /\ t - p <= 5 /\ p - t <= 5
       /\ p % 10 = 5 => t = p + 5

\* the frame time of three indices whose product, 5 * 15 * 3 = 225, ends in
\* 5: it is 230
C14_Witness ==
  /\ ret # <<>>
  /\ args.keyBytes[1] = 5 /\ args.keyByteIndices = <<0, 1, 2>>
  /\ ret[1] = FromInt(230)

(***************************************************************************)
(* solve on its own: one call solve(value, minVal, maxVal, rounding) for a *)
(* byte and a range <<minVal, maxVal>>: the two ranges animate uses with   *)
(* rounding set and not set, the range <<0, 1>>, and ranges over which the *)
(* value is negative or falls.                                             *)
(***************************************************************************)
InitSolve ==
  /\ NoToken /\ NoSession
  /\ args \in [value : 0..255,
               range : {<<60, 360>>, <<-1, 1>>, <<0, 1>>, <<-60, 20>>, <<2, -3>>},
               rounding : BOOLEAN]
  /\ ret = <<>>

CallSolve ==
  /\ ret = <<>>
  /\ ret' = <<solve(FromInt(args.value), FromInt(args.range[1]),
                    FromInt(args.range[2]), args.rounding)>>
  /\ UNCHANGED <<args, now, calls, sess, lastIndex>>

SpecSolve == InitSolve /\ [][CallSolve]_vars

\* C15 as the spec states it: with rounding set solve returns
\* x = value * (maxVal - minVal) / 255 + minVal truncated toward zero, and
\* with rounding not set x rounded to 2 decimal places (x is n / 255 for the
\* integer n = value * (maxVal - minVal) + 255 * minVal).
C15_Truncates ==
  ret # <<>> =>
    LET n == args.value * (args.range[2] - args.range[1]) + 255 * args.range[1]
    IN IF args.rounding
       THEN ret[1] = FromInt(IF n >= 0 THEN n \div 255 ELSE -((-n) \div 255))
       ELSE ret[1] = Fdiv(FromInt((40 * n + 51) \div 102), FromInt(100))

\* C15, amended: with rounding set solve returns the floor of
\* x = value * (maxVal - minVal) / 255 + minVal, the greatest integer that is
\* not above x (for a negative x that is not an integer this is one below
\* the truncation toward zero); with rounding not set it returns x rounded
\* to 2 decimal places, that is k / 100 for the integer k nearest to 100 x.
C15_Floors ==
  ret # <<>> =>
    LET n == args.value * (args.range[2] - args.range[1]) + 255 * args.range[1]
    IN IF args.rounding
       THEN /\ ret[1] = FromInt(n \div 255)
            /\ 255 * (n \div 255) <= n /\ n < 255 * ((n \div 255) + 1)
       ELSE ret[1] = Fdiv(FromInt((40 * n + 51) \div 102), FromInt(100))

\* solve(127, -1, 1, true) has returned -1: x = -1/255 is negative and not
\* an integer, and its truncation toward zero is 0
C15_Witness ==
  /\ ret # <<>> /\ args.rounding
  /\ args.value = 127 /\ args.range = <<-1, 1>>
  /\ ret[1] = FromInt(-1)

(***************************************************************************)
(* create: what its callers can tell from how it ended.                    *)
(***************************************************************************)
Ended(s) == sess[s].pc \in {"done", "failed", "hang"}

\* C4 as the spec states it: for a document without frame elements create
\* fails, whatever the key bytes and the indices are; it never returns an
\* animation key made from an empty collection of frames.
C4_NoFramesFails ==
  \A s \in Sessions :
    (Ended(s) /\ getFrames(sess[s].doc) = <<>>) => sess[s].pc = "failed"

\* create has returned a key and an animation key for a document without
\* frame elements
C4_Witness ==
  \E s \in Sessions :
    /\ sess[s].pc = "done" /\ getFrames(sess[s].doc) = <<>>
    /\ sess[s].animationKey = << <<>>, NaN >>

\* C6 as the spec states it: the error create throws tells the stage that
\* failed: after a failed fetch of the script it differs from the error for
\* a document without the script reference and from the error for a script
\* without the index pattern.
C6_StageIdentified ==
  \A s, t \in Sessions :
    ( /\ sess[s].pc = "failed" /\ sess[s].cause = "fetchFailed"
      /\ sess[t].pc = "failed" /\ sess[t].cause \in {"noScriptRef", "noIndices"} )
    => sess[s].error # sess[t].error

\* one call failed on the fetch, another on a script without the pattern
C6_Witness ==
  \E s, t \in Sessions :
    /\ sess[s].pc = "failed" /\ sess[s].cause = "fetchFailed"
    /\ sess[t].pc = "failed" /\ sess[t].cause = "noIndices"
    /\ sess[s].error = ErrKeyByte /\ sess[t].error = ErrKeyByte

\* C12: when calls of create interleave at their awaits, each call that has
\* read its script holds exactly the captures of that script, in order of
\* appearance: the first is rowIndex, the others are keyByteIndices (a
\* script without a capture fails the call); and whenever calls are
\* suspended INDICES_REGEX.lastIndex is 0, so that no call starts its loop
\* where another left the shared matcher.
C12_OwnCaptures ==
  /\ lastIndex = 0
  /\ \A s \in Sessions :
       sess[s].script # <<>> =>
         LET caps == SelectSeq(sess[s].script, LAMBDA piece : piece # <<>>)
         IN IF caps = <<>>
            THEN sess[s].pc = "failed" /\ sess[s].cause = "noIndices"
            ELSE /\ sess[s].pc \in {"indices", "done", "failed", "hang"}
                 /\ sess[s].cause # "noIndices"
                 /\ <<sess[s].rowIndex>> \o sess[s].keyByteIndices =
                      [k \in 1..Len(caps) |->
                         CHOOSE n \in 0..19 : Cap(n) = caps[k]]

\* two calls have both read their scripts, which differ and hold at least
\* two captures each, one of them past a piece without a match
C12_Witness ==
  /\ sess[1].pc = "indices" /\ sess[2].pc = "indices"
  /\ sess[1].script # sess[2].script
  /\ sess[1].keyByteIndices # <<>> /\ sess[2].keyByteIndices # <<>>
  /\ sess[1].script[1] = <<>>

\* C13: a call of create fetches the script at most once, and only at its
\* start; a call that has failed does nothing more (no further fetch, no
\* result); and a call returns {key, animationKey} only from the point
\* where getIndices has returned, with the key getKey gives for its document
\* and the animation key getAnimationKey gives for that key and the indices
\* extracted: never before, never a part of it.
C13_OnceInOrder ==
  [][\A s \in Sessions :
       /\ sess'[s].fetches <= 1
       /\ sess'[s].fetches # sess[s].fetches => sess[s].pc = "idle"
       /\ sess[s].pc = "failed" => sess'[s] = sess[s]
       /\ sess'[s].pc # "done" =>
            (sess'[s].key = <<>> /\ sess'[s].animationKey = <<>>)
       /\ (sess'[s].pc = "done" /\ sess[s].pc # "done") =>
            /\ sess[s].pc = "indices" /\ sess[s].fetches = 1
            /\ sess[s].script # <<>>
            /\ ~getKey(sess[s].doc).throws
            /\ sess'[s].key = getKey(sess[s].doc).key
            /\ sess'[s].key # <<>>
            /\ LET anim == getAnimationKey(getKeyBytes(sess'[s].key),
                                           sess[s].doc, sess[s].rowIndex,
                                           sess[s].keyByteIndices)
               IN anim.kind = "key" /\ sess'[s].animationKey = anim.animationKey
  ]_vars

\* one call has returned its keys after one fetch while another has failed
\* on its fetch
C13_Witness ==
  \E s, t \in Sessions :
    /\ sess[s].pc = "done" /\ sess[s].fetches = 1 /\ sess[s].key # <<>>
    /\ sess[t].pc = "failed" /\ sess[t].cause = "fetchFailed"
    /\ sess[t].fetches = 1

(***************************************************************************)
(* generateTransactionId.  The arguments of a call are args; a call made   *)
(* is recorded in calls with Date.now() and the random byte it drew, the   *)
(* bytes it encoded and the token it returned.                             *)
(***************************************************************************)
\* the method GET, the paths /a and /b, the animation key 00
TimeArgs ==
  {[given |-> FALSE, val |-> 0]}
    \cup {[given |-> TRUE, val |-> v] : v \in {0, 1, 66051, 2147483647, -1}}
TokenArgs ==
  [method : {<<71, 69, 84>>}, path : {<<47, 97>>, <<47, 98>>},
   key : {KeyA, KeyB},
   animationKey : {<<48, 48>>}, timeNow : TimeArgs]

\* lines 316-347 for the call with the arguments args
Generate(randomNum) ==
  [args |-> args, dateNow |-> now, randomNum |-> randomNum,
   result |-> generateTransactionId(args.method, args.path, args.key,
                                    args.animationKey, args.timeNow, now,
                                    randomNum)]

InitToken ==
  /\ NoSession
  /\ args \in TokenArgs
  /\ ret = <<>>
  /\ now \in {[sec |-> EpochSeconds + d, ms |-> m] : d \in {0, 300}, m \in {0, 999}}
  /\ calls = <<>>

\* one call, drawing the byte randomNum
CallOnce(randomNum) ==
  /\ calls = <<>>
  /\ calls' = <<Generate(randomNum)>>
  /\ UNCHANGED <<args, ret, now, sess, lastIndex>>

NextToken == \E randomNum \in 0..255 : CallOnce(randomNum)

SpecToken == InitToken /\ [][NextToken]_vars

\* C1 as the spec states it: for a caller-supplied timestamp t and every
\* drawn byte r, the bytes encoded are r followed by p XOR r for each byte p
\* of keyBytes ++ [t & 0xFF, (t>>8) & 0xFF, (t>>16) & 0xFF, (t>>24) & 0xFF]
\* ++ the first 16 hash bytes ++ [3]; XOR-ing the bytes after the first with
\* the first gives that plaintext back, of length len(keyBytes) + 4 + 16 + 1.
C1_MaskedPlaintext ==
  (calls # <<>> /\ args.timeNow.given) =>
    LET t     == args.timeNow.val
        r     == calls[1].randomNum
        out   == calls[1].result.out
        plain == getKeyBytes(args.key)
                   \o <<t % 256, (t \div 256) % 256, (t \div 65536) % 256,
                        (t \div 16777216) % 256>>
                   \o SubSeq(digest(hashData(args.method, args.path, t,
                                             args.animationKey)), 1, 16)
                   \o <<3>>
    IN /\ Len(plain) = Len(getKeyBytes(args.key)) + 4 + 16 + 1
       /\ Len(out) = Len(plain) + 1
       /\ out[1] = r
       /\ \A k \in 1..Len(plain) :
            out[k + 1] = xor(plain[k], r) /\ xor(out[k + 1], out[1]) = plain[k]

\* a call with the timestamp 0, five minutes after the reference instant,
\* has returned
C1_Witness ==
  /\ calls # <<>> /\ args.timeNow = [given |-> TRUE, val |-> 0]
  /\ calls[1].dateNow.sec = EpochSeconds + 300
  /\ calls[1].randomNum = 255

(***************************************************************************)
(* Two calls of generateTransactionId with the same arguments, the clock   *)
(* advancing between them.                                                 *)
(***************************************************************************)
MaxClock == 2

InitTokenPair ==
  /\ NoSession
  /\ args \in TokenArgs
  /\ ret = <<>>
  /\ now = [sec |-> EpochSeconds, ms |-> 0]
  /\ calls = <<>>

CallGenerate(randomNum) ==
  /\ Len(calls) < 2
  /\ calls' = Append(calls, Generate(randomNum))
  /\ UNCHANGED <<args, ret, now, sess, lastIndex>>

\* 600 ms pass
Tick ==
  /\ now.sec < EpochSeconds + MaxClock
  /\ now' = IF now.ms + 600 >= 1000
            THEN [sec |-> now.sec + 1, ms |-> now.ms - 400]
            ELSE [sec |-> now.sec, ms |-> now.ms + 600]
  /\ UNCHANGED <<args, ret, calls, sess, lastIndex>>

NextTokenPair ==
  \/ \E randomNum \in {0, 1, 255} : CallGenerate(randomNum)
  \/ Tick

SpecTokenPair == InitTokenPair /\ [][NextTokenPair]_vars

\* C2 as the spec states it: two calls with the same method, path, key and
\* animation key, the same caller-supplied timestamp and the same drawn
\* byte return the same token, whatever Date.now() is at each call.
C2_SameToken ==
  ( /\ Len(calls) = 2 /\ args.timeNow.given
    /\ calls[1].randomNum = calls[2].randomNum )
  => calls[1].result.token = calls[2].result.token

\* two calls with the timestamp 0 and the same byte, at different seconds
C2_Witness ==
  /\ Len(calls) = 2 /\ args.timeNow = [given |-> TRUE, val |-> 0]
  /\ calls[1].randomNum = calls[2].randomNum
  /\ wallClock(calls[1].dateNow) # wallClock(calls[2].dateNow)
  /\ calls[1].result.token # calls[2].result.token

====
